---- MODULE Spec2Model ----
(***************************************************************************)
(* Split hybrid LinUCB solver dispatch (src/split_hybridlinucb.py).        *)
(*                                                                         *)
(* The program walks over a random sample of problems.  For each problem   *)
(* it probes a feature vector, scores every solver with a hybrid LinUCB    *)
(* estimator, runs the solvers in ascending score order until one answers  *)
(* sat or unsat (add_strategy), and then folds the rewards of the attempts *)
(* into the shared model (A_0, B_0) and the per-solver models (As, Bs, Cs).*)
(*                                                                         *)
(* numpy's float64 arithmetic is modelled by exact rational arithmetic: a  *)
(* number is a pair <<n, d>> in lowest terms with d > 0.  A score          *)
(* a + ALPHA * sqrt(s) is kept as the pair of rationals (a, s) and two     *)
(* scores are compared exactly (ScoreSign).                                *)
(***************************************************************************)
EXTENDS Integers, Sequences, FiniteSets

(***************************************************************************)
(* Program constants and model bounds.                                     *)
(***************************************************************************)
\* TIMEOUT = 60.0
TIMEOUT == 60
\* ALPHA = 2.358 = AlphaNum / AlphaDen
AlphaNum == 2358
AlphaDen == 1000
\* len(SOLVERS): Z3, CVC4, BOOLECTOR, YICES
NumSolvers == 4
\* len(PROBES) is 11 in the program; the model keeps Dim probes.
Dim == 2
\* The sample holds at most MaxRounds problems (min(TRAINING_SAMPLE, len(problems))).
MaxRounds == 2

(***************************************************************************)
(* Exact rational arithmetic.                                              *)
(***************************************************************************)
Abs(n) == IF n < 0 THEN -n ELSE n

Sgn(n) == IF n < 0 THEN -1 ELSE IF n = 0 THEN 0 ELSE 1

RECURSIVE GCD(_, _)
GCD(a, b) == IF b = 0 THEN a ELSE GCD(b, a % b)

\* n / d in lowest terms, for d > 0.
RNorm(n, d) ==
    LET g == GCD(Abs(n), d)
    IN  <<n \div g, d \div g>>

RZero == <<0, 1>>

ROne == <<1, 1>>

RInt(n) == <<n, 1>>

RNeg(a) == <<-a[1], a[2]>>

RAdd(a, b) ==
    LET g == GCD(a[2], b[2])
    IN  RNorm(a[1] * (b[2] \div g) + b[1] * (a[2] \div g), (a[2] \div g) * b[2])

RSub(a, b) == RAdd(a, RNeg(b))

RMul(a, b) ==
    LET g1 == GCD(Abs(a[1]), b[2])
        g2 == GCD(Abs(b[1]), a[2])
    IN  <<(a[1] \div g1) * (b[1] \div g2), (a[2] \div g2) * (b[2] \div g1)>>

\* 1 / a, for a # 0.
RInv(a) == IF a[1] > 0 THEN <<a[2], a[1]>> ELSE <<-a[2], -a[1]>>

RDiv(a, b) == RMul(a, RInv(b))

RSign(a) == Sgn(a[1])

(***************************************************************************)
(* Matrices: a record [r, c, v] of r rows and c columns, v[i][j] the entry *)
(* of row i and column j.  The shape is kept explicitly, as numpy does, so *)
(* that a (0, 1) array and its (1, 0) transpose are told apart.            *)
(***************************************************************************)
\* The array of shape (r, c) whose entries f gives.  SubSeq makes the
\* entries explicit: each is computed once, when the matrix is built.
Mat(r, c, f) ==
    [r |-> r, c |-> c,
     v |-> SubSeq([i \in 1..r |-> SubSeq([j \in 1..c |-> f[i, j]], 1, c)], 1, r)]

\* np.identity(n)
Identity(n) ==
    Mat(n, n, [i \in 1..n, j \in 1..n |-> IF i = j THEN ROne ELSE RZero])

\* np.zeros((r, c))
Zeros(r, c) ==
    Mat(r, c, [i \in 1..r, j \in 1..c |-> RZero])

\* M.T
Transpose(M) ==
    Mat(M.c, M.r, [i \in 1..M.c, j \in 1..M.r |-> M.v[j][i]])

\* M + N
MatAdd(M, N) ==
    Mat(M.r, M.c, [i \in 1..M.r, j \in 1..M.c |-> RAdd(M.v[i][j], N.v[i][j])])

\* M - N
MatSub(M, N) ==
    Mat(M.r, M.c, [i \in 1..M.r, j \in 1..M.c |-> RSub(M.v[i][j], N.v[i][j])])

\* k * M for a scalar k
Scale(k, M) ==
    Mat(M.r, M.c, [i \in 1..M.r, j \in 1..M.c |-> RMul(k, M.v[i][j])])

RECURSIVE DotFrom(_, _, _, _, _)
DotFrom(M, N, i, j, t) ==
    IF t > M.c THEN RZero
    ELSE RAdd(RMul(M.v[i][t], N.v[t][j]), DotFrom(M, N, i, j, t + 1))

\* M @ N
MatMul(M, N) ==
    Mat(M.r, N.c, [i \in 1..M.r, j \in 1..N.c |-> DotFrom(M, N, i, j, 1)])

\* M without row i and column j
Minor(M, i, j) ==
    Mat(M.r - 1, M.c - 1,
        [a \in 1..(M.r - 1), b \in 1..(M.c - 1) |->
            M.v[IF a < i THEN a ELSE a + 1][IF b < j THEN b ELSE b + 1]])

RECURSIVE Det(_)
RECURSIVE DetFrom(_, _)
\* Laplace expansion along the first row, from column j on.
DetFrom(M, j) ==
    IF j > M.c THEN RZero
    ELSE LET t == RMul(M.v[1][j], Det(Minor(M, 1, j)))
         IN  RAdd(IF j % 2 = 1 THEN t ELSE RNeg(t), DetFrom(M, j + 1))

Det(M) == IF M.r = 0 THEN ROne ELSE DetFrom(M, 1)

\* np.linalg.inv(M): the adjugate over the determinant.  numpy raises
\* LinAlgError for a singular M; A_0 and every As[i] stay positive-definite
\* (PositiveDefinite below), so the program never takes that branch.
Inverse(M) ==
    LET dt == Det(M)
        Cofactor(i, j) == LET m == Det(Minor(M, j, i))
                          IN  IF (i + j) % 2 = 0 THEN m ELSE RNeg(m)
    IN  Mat(M.r, M.c,
            [i \in 1..M.r, j \in 1..M.c |-> RDiv(Cofactor(i, j), dt)])

\* The single entry of a (1, 1) array: a[0][0].
Scalar(M) == M.v[1][1]

(***************************************************************************)
(* Exact comparison of scores.  A comparison of a + ALPHA*sqrt(s) with     *)
(* a' + ALPHA*sqrt(s') is decided by squaring, over integers of arbitrary  *)
(* size: a natural is the sequence of its base-1000 digits, lowest first,  *)
(* with no leading zero (0 is the empty sequence); an integer is a pair    *)
(* <<sign, magnitude>>.                                                    *)
(***************************************************************************)
\* The digit sequence c without its leading zeros.
BigStrip(c) ==
    LET nz == {k \in 1..Len(c) : c[k] # 0}
    IN  IF nz = {} THEN <<>>
        ELSE SubSeq(c, 1, CHOOSE k \in nz : \A m \in nz : m <= k)

RECURSIVE BigCarry(_)
\* Carries (and borrows) moved up until every digit is in 0..999.
BigCarry(c) ==
    IF \A k \in 1..Len(c) : c[k] >= 0 /\ c[k] < 1000 THEN BigStrip(c)
    ELSE BigCarry(SubSeq([k \in 1..(Len(c) + 1) |->
                              (IF k <= Len(c) THEN c[k] % 1000 ELSE 0)
                            + (IF k > 1 THEN c[k - 1] \div 1000 ELSE 0)],
                         1, Len(c) + 1))

BigOfNat(n) == BigCarry(<<n>>)

BigDigit(a, k) == IF k <= Len(a) THEN a[k] ELSE 0

BigAdd(a, b) ==
    LET n == IF Len(a) > Len(b) THEN Len(a) ELSE Len(b)
    IN  BigCarry(SubSeq([k \in 1..n |-> BigDigit(a, k) + BigDigit(b, k)], 1, n))

\* a - b, for a >= b.
BigSub(a, b) ==
    BigCarry(SubSeq([k \in 1..Len(a) |-> a[k] - BigDigit(b, k)], 1, Len(a)))

RECURSIVE BigConv(_, _, _, _, _)
\* The sum of a[i] * b[k + 1 - i] for i in lo..hi.
BigConv(a, b, k, lo, hi) ==
    IF lo > hi THEN 0
    ELSE IF lo = hi THEN a[lo] * b[k + 1 - lo]
    ELSE LET mid == (lo + hi) \div 2
         IN  BigConv(a, b, k, lo, mid) + BigConv(a, b, k, mid + 1, hi)

BigMul(a, b) ==
    IF a = <<>> \/ b = <<>> THEN <<>>
    ELSE BigCarry(SubSeq([k \in 1..(Len(a) + Len(b) - 1) |->
                             BigConv(a, b, k,
                                     IF k + 1 - Len(b) > 1 THEN k + 1 - Len(b) ELSE 1,
                                     IF k < Len(a) THEN k ELSE Len(a))],
                         1, Len(a) + Len(b) - 1))

\* The sign of a - b.
BigCmp(a, b) ==
    IF Len(a) # Len(b) THEN Sgn(Len(a) - Len(b))
    ELSE LET df == {k \in 1..Len(a) : a[k] # b[k]}
         IN  IF df = {} THEN 0
             ELSE LET k == CHOOSE m \in df : \A n \in df : n <= m
                  IN  Sgn(a[k] - b[k])

SInt(n) == <<Sgn(n), BigOfNat(Abs(n))>>

SNeg(a) == <<-a[1], a[2]>>

SMul(a, b) == <<a[1] * b[1], BigMul(a[2], b[2])>>

SAdd(a, b) ==
    IF a[1] = 0 THEN b
    ELSE IF b[1] = 0 THEN a
    ELSE IF a[1] = b[1] THEN <<a[1], BigAdd(a[2], b[2])>>
    ELSE LET c == BigCmp(a[2], b[2])
         IN  IF c = 0 THEN <<0, <<>> >>
             ELSE IF c > 0 THEN <<a[1], BigSub(a[2], b[2])>>
             ELSE <<b[1], BigSub(b[2], a[2])>>

SSub(a, b) == SAdd(a, SNeg(b))

\* The sign of the rational a - b, without overflow.
RCmp(a, b) == SSub(SMul(SInt(a[1]), SInt(b[2])), SMul(SInt(b[1]), SInt(a[2])))[1]

\* The sign of (p.a + alpha*sqrt(p.s)) - (q.a + alpha*sqrt(q.s)), for
\* rationals p.a, q.a, alpha and p.s, q.s >= 0.  With D = p.a - q.a and
\* T = alpha*(sqrt(p.s) - sqrt(q.s)): when D and T have opposite signs,
\* |D| > |T| iff 2*alpha^2*sqrt(p.s*q.s) > alpha^2*(p.s + q.s) - D^2.
ScoreSign(p, q, alpha) ==
    LET n1 == SInt(p.a[1])   d1 == SInt(p.a[2])
        n2 == SInt(q.a[1])   d2 == SInt(q.a[2])
        p1 == SInt(p.s[1])   q1 == SInt(p.s[2])
        p2 == SInt(q.s[1])   q2 == SInt(q.s[2])
        an == SInt(alpha[1]) ad == SInt(alpha[2])
        Dn == SSub(SMul(n1, d2), SMul(n2, d1))
        Dd == SMul(d1, d2)
        sD == Dn[1]
        sT == Sgn(alpha[1]) * RCmp(p.s, q.s)
        X  == SMul(SMul(SMul(an, an), SMul(Dd, Dd)),
                   SAdd(SMul(p1, q2), SMul(p2, q1)))
        Y  == SMul(SMul(SMul(Dn, Dn), SMul(ad, ad)), SMul(q1, q2))
        G  == SSub(X, Y)
        W  == SMul(SMul(SInt(4), SMul(SMul(an, an), SMul(an, an))),
                   SMul(SMul(SMul(Dd, Dd), SMul(Dd, Dd)),
                        SMul(SMul(p1, q1), SMul(p2, q2))))
        c  == SSub(W, SMul(G, G))[1]
    IN  IF p = q \/ sD = 0 THEN sT
        ELSE IF sT = 0 \/ sT = sD THEN sD
        ELSE IF G[1] < 0 \/ c > 0 THEN sD
        ELSE IF c = 0 THEN 0
        ELSE sT

(***************************************************************************)
(* The environment: the problems of the dataset, what z3's probes report   *)
(* for each, and what each solver process does on each.                    *)
(***************************************************************************)
\* glob.glob(problem_dir): the problem files of the dataset.
Problems == 1..3

\* The five outcomes run_problem reports (SAT_RESULT ... ERROR_RESULT).
SAT_RESULT == "sat"

UNSAT_RESULT == "unsat"

UNKNOWN_RESULT == "unknown"

\* 'timeout (%.1f s)' % TIMEOUT
TIMEOUT_RESULT == "timeout (60.0 s)"

ERROR_RESULT == "error"

\* probe(smtlib): the raw probe values of problem p, n of them.  Problem 1
\* has one probe that is not 0, problem 2 has every probe at 1, and problem
\* 3 (a file without assertions) has every probe at 0.
probe(p, n) ==
    [c \in 1..n |->
        CASE p = 1 -> IF c = 1 THEN 2 ELSE 0
          [] p = 2 -> 1
          [] OTHER -> 0]

\* What the process of solver i does on problem p: whether it is still
\* running when the budget ends, which of the words unsat, sat, unknown its
\* output holds (an output with "unsat" holds "sat" too), and the share of
\* the budget it ran for.  On problem 1 the solvers print nothing, sat
\* after 2/5 of the budget, unknown, and unsat at once; on problem 2 every
\* solver runs out of time; on problem 3 every solver answers at once.
Process(p, i) ==
    CASE p = 1 ->
           CASE i % 4 = 0 -> [timedout |-> FALSE, words |-> {}, share |-> RZero]
             [] i % 4 = 1 -> [timedout |-> FALSE, words |-> {"sat"}, share |-> <<2, 5>>]
             [] i % 4 = 2 -> [timedout |-> FALSE, words |-> {"unknown"}, share |-> <<1, 5>>]
             [] OTHER     -> [timedout |-> FALSE, words |-> {"unsat", "sat"}, share |-> RZero]
      [] p = 2 -> [timedout |-> TRUE, words |-> {}, share |-> ROne]
      [] OTHER ->
           IF i % 2 = 0
           THEN [timedout |-> FALSE, words |-> {"sat"}, share |-> RZero]
           ELSE [timedout |-> FALSE, words |-> {"unsat", "sat"}, share |-> RZero]

(***************************************************************************)
(* run_problem and the reward.                                             *)
(***************************************************************************)
\* output2result: unsat is looked for first, as sat is a substring of it.
output2result(words) ==
    IF "unsat" \in words THEN UNSAT_RESULT
    ELSE IF "sat" \in words THEN SAT_RESULT
    ELSE IF "unknown" \in words THEN UNKNOWN_RESULT
    ELSE ERROR_RESULT

\* TIMEOUT/len(SOLVERS): what process.wait allows one attempt.
Budget(K) == RNorm(TIMEOUT, K)

\* run_problem with a fault: a process that is still running when its wait
\* ends is charged the whole TIMEOUT, and the time of a run without an
\* answer is kept.
run_problemWholeTimeout(p, i, K) ==
    LET proc == Process(p, i)
    IN  [result  |-> IF proc.timedout THEN TIMEOUT_RESULT
                     ELSE output2result(proc.words),
         elapsed |-> IF proc.timedout THEN RInt(TIMEOUT)
                     ELSE RMul(proc.share, Budget(K))]

\* run_problem(solver, invocation, problem) with K solvers configured: the
\* Result's (result, elapsed).
run_problem(p, i, K) ==
    LET proc    == Process(p, i)
        elapsed == IF proc.timedout THEN Budget(K) ELSE RMul(proc.share, Budget(K))
        output  == IF proc.timedout THEN TIMEOUT_RESULT ELSE output2result(proc.words)
    IN  [result  |-> output,
         elapsed |-> IF output = "sat" \/ output = "unsat" THEN elapsed ELSE Budget(K)]

\* The test with a fault: only sat ends the loop.
IsSolvedSatOnly(result) == result = SAT_RESULT

\* res.result == SAT_RESULT or res.result == UNSAT_RESULT
IsSolved(result) == result = SAT_RESULT \/ result = UNSAT_RESULT

\* (1 - (len(SOLVERS) * res.elapsed) / TIMEOUT) ** 4
Reward(elapsed, K) ==
    LET b == RSub(ROne, RDiv(RMul(RInt(K), elapsed), RInt(TIMEOUT)))
    IN  RMul(RMul(b, b), RMul(b, b))

(***************************************************************************)
(* The feature vector.                                                     *)
(***************************************************************************)
\* np.array(last_five).max(axis=0)[c]
ColumnMax(window, c) ==
    CHOOSE m \in {window[t][c] : t \in 1..Len(window)} :
        \A t \in 1..Len(window) : window[t][c] <= m

\* point / (np.array(last_five).max(axis=0) + 1e-10), reshaped to (d, 1).
\* The 1e-10 only keeps 0/0 from happening; it is dropped here.
Normalize(raw, window) ==
    Mat(Len(raw), 1,
        [i \in 1..Len(raw), j \in 1..1 |->
            IF ColumnMax(window, i) = 0 THEN RZero
            ELSE RNorm(raw[i], ColumnMax(window, i))])

(***************************************************************************)
(* Scoring (main, the lines computing beta, thetas, ss, ps and choices).   *)
(* A model m is the record of A_0, B_0, As, Bs, Cs.                        *)
(***************************************************************************)
\* thetas[i] = np.linalg.inv(As[i]) @ (Bs[i] - Cs[i] @ beta)
Theta(m, i, beta) ==
    MatMul(Inverse(m.As[i]), MatSub(m.Bs[i], MatMul(m.Cs[i], beta)))

\* ss[i], the (1, 1) array's entry, given np.linalg.inv(A_0)
Variance(m, i, x, iA0) ==
    LET iAi == Inverse(m.As[i])
        xT  == Transpose(x)
        CiT == Transpose(m.Cs[i])
        t1  == MatMul(MatMul(xT, iA0), x)
        t2  == Scale(RInt(2),
                     MatMul(MatMul(MatMul(MatMul(xT, iA0), CiT), iAi), x))
        t3  == MatMul(MatMul(xT, iAi), x)
        t4  == MatMul(MatMul(MatMul(MatMul(MatMul(MatMul(xT, iAi), m.Cs[i]),
                                           iA0), CiT), iAi), x)
    IN  Scalar(MatAdd(MatAdd(MatSub(t1, t2), t3), t4))

\* thetas[i].T @ point + beta.T @ point, the (1, 1) array's entry
Prediction(m, i, x, beta) ==
    Scalar(MatAdd(MatMul(Transpose(Theta(m, i, beta)), x),
                  MatMul(Transpose(beta), x)))

\* beta = np.linalg.inv(A_0) @ B_0, given the inverse
Beta(m, iA0) == MatMul(iA0, m.B_0)

\* thetas[i].T @ point + beta.T @ point + ALPHA * np.sqrt(ss[i]), kept as
\* the pair (a, s) of the prediction and ss[i].
Score(m, i, x, iA0) ==
    [a |-> Prediction(m, i, x, Beta(m, iA0)), s |-> Variance(m, i, x, iA0)]

\* ps = [... for i in range(len(SOLVERS))]
Scores(m, x) ==
    LET iA0  == Inverse(m.A_0)
        K    == Cardinality(DOMAIN m.As)
        each == SubSeq([n \in 1..K |-> Score(m, n - 1, x, iA0)], 1, K)
    IN  [i \in 0..(K - 1) |-> each[i + 1]]

\* The permutations of 0..K-1, as sequences.
Orders(K) ==
    {f \in [1..K -> 0..(K - 1)] : \A a, b \in 1..K : a # b => f[a] # f[b]}

\* The ranking with a fault: the indices in an order that sorts the scores
\* descending.
argsortDescending(scores, K, al) ==
    {f \in Orders(K) :
        \A a, b \in 1..K :
            a < b => ScoreSign(scores[f[a]], scores[f[b]], al) >= 0}

\* np.argsort(scores) with the default kind: the indices in an order that
\* sorts the scores ascending.  The default sort is not stable, so equal
\* scores may come out in any order.
argsort(scores, K, al) ==
    LET sign == SubSeq([a \in 1..K |-> SubSeq([b \in 1..K |->
                    IF a < b THEN ScoreSign(scores[a - 1], scores[b - 1], al)
                    ELSE 0], 1, K)], 1, K)
        NotAbove(a, b) == IF a < b THEN sign[a + 1][b + 1] <= 0
                          ELSE IF b < a THEN sign[b + 1][a + 1] >= 0
                          ELSE TRUE
    IN  {f \in Orders(K) :
            \A a, b \in 1..K : a < b => NotAbove(f[a], f[b])}

(***************************************************************************)
(* The update of main's inner loop, for one attempted solver.              *)
(***************************************************************************)
\* Cs[choice].T @ np.linalg.inv(As[choice]) @ Cs[choice], given the inverse
CorrectionA(iA, C) == MatMul(MatMul(Transpose(C), iA), C)

\* Cs[choice].T @ np.linalg.inv(As[choice]) @ Bs[choice], given the inverse
CorrectionB(iA, B, C) == MatMul(MatMul(Transpose(C), iA), B)

\* point @ point.T
Outer(x) == MatMul(x, Transpose(x))

\* The assignment with a fault: point * point in place of point @ point.T,
\* which numpy broadcasts over the columns.
NewABroadcast(A, x) ==
    Mat(A.r, A.c,
        [i \in 1..A.r, j \in 1..A.c |->
            RAdd(A.v[i][j], RMul(x.v[i][1], x.v[i][1]))])

\* As[choice] = As[choice] + point @ point.T
NewA(A, x) == MatAdd(A, Outer(x))

\* Bs[choice] = Bs[choice] + reward * point
NewB(B, x, reward) == MatAdd(B, Scale(reward, x))

\* The assignment with a fault: Cs[choice] is left as it was.
NewCStale(C, x) == C

\* Cs[choice] = Cs[choice] + point @ point.T
NewC(C, x) == MatAdd(C, Outer(x))

\* The update with a fault: both corrections of A_0 and B_0 read the
\* solver's matrices as they have become.
UpdateLateCorrection(m, choice, x, reward) ==
    LET Ai  == NewA(m.As[choice], x)
        Bi  == NewB(m.Bs[choice], x, reward)
        Ci  == NewC(m.Cs[choice], x)
        iAi == Inverse(Ai)
        A1  == MatAdd(m.A_0, CorrectionA(iAi, Ci))
        B1  == MatAdd(m.B_0, CorrectionB(iAi, Bi, Ci))
        A2  == MatAdd(A1, MatSub(Outer(x), CorrectionA(iAi, Ci)))
        B2  == MatAdd(B1, MatSub(Scale(reward, x), CorrectionB(iAi, Bi, Ci)))
    IN  [A_0 |-> A2, B_0 |-> B2,
         As  |-> [m.As EXCEPT ![choice] = Ai],
         Bs  |-> [m.Bs EXCEPT ![choice] = Bi],
         Cs  |-> [m.Cs EXCEPT ![choice] = Ci]]

\* The update with a fault: A_0 and B_0 are corrected, but the solver's own
\* matrices are computed and not stored.
UpdateSharedOnly(m, choice, x, reward) ==
    LET iA  == Inverse(m.As[choice])
        A1  == MatAdd(m.A_0, CorrectionA(iA, m.Cs[choice]))
        B1  == MatAdd(m.B_0, CorrectionB(iA, m.Bs[choice], m.Cs[choice]))
        Ai  == NewA(m.As[choice], x)
        Bi  == NewB(m.Bs[choice], x, reward)
        Ci  == NewC(m.Cs[choice], x)
        iAi == Inverse(Ai)
        A2  == MatAdd(A1, MatSub(Outer(x), CorrectionA(iAi, Ci)))
        B2  == MatAdd(B1, MatSub(Scale(reward, x), CorrectionB(iAi, Bi, Ci)))
    IN  [A_0 |-> A2, B_0 |-> B2, As |-> m.As, Bs |-> m.Bs, Cs |-> m.Cs]

\* The seven assignments, in the program's order: the first two read the
\* solver's matrices as they were, the last two as they have become.
Update(m, choice, x, reward) ==
    LET iA  == Inverse(m.As[choice])
        A1  == MatAdd(m.A_0, CorrectionA(iA, m.Cs[choice]))
        B1  == MatAdd(m.B_0, CorrectionB(iA, m.Bs[choice], m.Cs[choice]))
        Ai  == NewA(m.As[choice], x)
        Bi  == NewB(m.Bs[choice], x, reward)
        Ci  == NewC(m.Cs[choice], x)
        iAi == Inverse(Ai)
        A2  == MatAdd(A1, MatSub(Outer(x), CorrectionA(iAi, Ci)))
        B2  == MatAdd(B1, MatSub(Scale(reward, x), CorrectionB(iAi, Bi, Ci)))
    IN  [A_0 |-> A2, B_0 |-> B2,
         As  |-> [m.As EXCEPT ![choice] = Ai],
         Bs  |-> [m.Bs EXCEPT ![choice] = Bi],
         Cs  |-> [m.Cs EXCEPT ![choice] = Ci]]

\* The model main starts from, for K solvers and n probes.
InitialModel(K, n) ==
    [A_0 |-> Identity(n), B_0 |-> Zeros(n, 1),
     As  |-> [i \in 0..(K - 1) |-> Identity(n)],
     Bs  |-> [i \in 0..(K - 1) |-> Zeros(n, 1)],
     Cs  |-> [i \in 0..(K - 1) |-> Zeros(n, n)]]

(***************************************************************************)
(* The state.                                                              *)
(***************************************************************************)
VARIABLES
    nsolvers,   \* len(SOLVERS)
    d,          \* len(PROBES)
    alpha,      \* ALPHA
    A_0, B_0, As, Bs, Cs,
    last_five,  \* the raw probe vectors of the last rounds
    sampled,    \* the problems of the sample main has iterated over
    ctr,
    solved, all,
    pc,         \* where main is: loop, attempt, record, update, done, crashed
    prob, point, ps, choices,
    pos,        \* add_strategy: the position in solver_list
    elapsed, solver, res, rewards,
    upd,        \* main: the position in rewards of the update loop
    trace,      \* history: the attempts and updates of the round, in order
    round0,     \* history: the model when the round started
    pre         \* history: the model before the latest update

vars == <<nsolvers, d, alpha, A_0, B_0, As, Bs, Cs, last_five, sampled, ctr,
          solved, all, pc, prob, point, ps, choices, pos, elapsed, solver,
          res, rewards, upd, trace, round0, pre>>

config == <<nsolvers, d, alpha>>

locals == <<prob, point, ps, choices, pos, elapsed, solver, res, rewards, upd>>

Model == [A_0 |-> A_0, B_0 |-> B_0, As |-> As, Bs |-> Bs, Cs |-> Cs]

\* solver, res = None, None
NoResult == [result |-> "None", elapsed |-> RZero]

NoSolver == -1

\* Solved_Problem(problem, datapoint, solver, elapsed, res.result): the
\* fields main reads back (problem, result, time) are kept.
Solved_Problem(problem, time, result) ==
    [problem |-> problem, time |-> time, result |-> result]

Start(K, n, al) ==
    /\ nsolvers = K
    /\ d = n
    /\ alpha = al
    /\ A_0 = InitialModel(K, n).A_0
    /\ B_0 = InitialModel(K, n).B_0
    /\ As = InitialModel(K, n).As
    /\ Bs = InitialModel(K, n).Bs
    /\ Cs = InitialModel(K, n).Cs
    /\ last_five = <<>>
    /\ sampled = {}
    /\ ctr = 0
    /\ solved = <<>>
    /\ all = <<>>
    /\ pc = "loop"
    /\ prob = 0
    /\ point = Zeros(n, 1)
    /\ ps = <<>>
    /\ choices = <<>>
    /\ pos = 1
    /\ elapsed = RZero
    /\ solver = NoSolver
    /\ res = NoResult
    /\ rewards = <<>>
    /\ upd = 1
    /\ trace = <<>>
    /\ round0 = InitialModel(K, n)
    /\ pre = InitialModel(K, n)

\* The program as written: four solvers, ALPHA = 2.358.
Init == Start(NumSolvers, Dim, RNorm(AlphaNum, AlphaDen))

(***************************************************************************)
(* main's loop head: the next problem of the sample is probed, every       *)
(* solver is scored, and add_strategy is entered with the ranking.         *)
(***************************************************************************)
NextProblem(p) ==
    /\ pc = "loop"
    /\ p \notin sampled
    /\ Cardinality(sampled) < MaxRounds
    /\ LET raw    == probe(p, d)
           window == Append(last_five, raw)
           x      == Normalize(raw, window)
           scores == Scores(Model, x)
       IN  /\ last_five' = IF Len(window) > 5 THEN Tail(window) ELSE window
           /\ point' = x
           /\ ps' = scores
           /\ choices' \in argsort(scores, nsolvers, alpha)
    /\ sampled' = sampled \cup {p}
    /\ prob' = p
    /\ pos' = 1
    /\ elapsed' = RZero
    /\ solver' = NoSolver
    /\ res' = NoResult
    /\ rewards' = <<>>
    /\ upd' = 1
    /\ pc' = IF nsolvers = 0 THEN "record" ELSE "attempt"
    /\ trace' = <<>>
    /\ round0' = Model
    /\ pre' = Model
    /\ UNCHANGED <<config, A_0, B_0, As, Bs, Cs, ctr, solved, all>>

\* The lookup with a fault: the loop index itself is taken for the solver.
ChoiceByIndex(n) == n - 1

\* choice = choices[i], i counted from 1 here
Choice(n) == choices[n]

\* The loop turn with a fault in where the update happens: the model is
\* updated with the attempt's reward inside the turn, before the next
\* solver runs, and main's loop over the rewards finds nothing left to do.
AttemptStepEager ==
    /\ pc = "attempt"
    /\ LET i  == choices[pos]
           r  == run_problem(prob, i, nsolvers)
           rw == Reward(r.elapsed, nsolvers)
           m  == Update(Model, i, point, rw)
       IN  /\ solver' = i
           /\ res' = r
           /\ elapsed' = RAdd(elapsed, r.elapsed)
           /\ rewards' = Append(rewards, rw)
           /\ solved' = IF IsSolved(r.result)
                        THEN Append(solved,
                                    Solved_Problem(prob,
                                                   RAdd(elapsed, r.elapsed),
                                                   r.result))
                        ELSE solved
           /\ pc' = IF IsSolved(r.result) \/ pos = Len(choices)
                    THEN "record" ELSE "attempt"
           /\ A_0' = m.A_0
           /\ B_0' = m.B_0
           /\ As' = m.As
           /\ Bs' = m.Bs
           /\ Cs' = m.Cs
           /\ pre' = Model
           /\ trace' = trace \o
                  <<[kind |-> "attempt", engine |-> i, result |-> r.result,
                     elapsed |-> r.elapsed, reward |-> rw],
                    [kind |-> "update", engine |-> i, result |-> "",
                     elapsed |-> RZero, reward |-> rw]>>
    /\ pos' = pos + 1
    /\ upd' = upd + 1
    /\ UNCHANGED <<config, last_five, sampled, ctr, all, prob, point, ps,
                   choices, round0>>

(***************************************************************************)
(* add_strategy: one turn of its loop over solver_list.                    *)
(***************************************************************************)
AttemptStep ==
    /\ pc = "attempt"
    /\ LET i == choices[pos]
           r == run_problem(prob, i, nsolvers)
       IN  /\ solver' = i
           /\ res' = r
           /\ elapsed' = RAdd(elapsed, r.elapsed)
           /\ rewards' = Append(rewards, Reward(r.elapsed, nsolvers))
           /\ solved' = IF IsSolved(r.result)
                        THEN Append(solved,
                                    Solved_Problem(prob,
                                                   RAdd(elapsed, r.elapsed),
                                                   r.result))
                        ELSE solved
           /\ pc' = IF IsSolved(r.result) \/ pos = Len(choices)
                    THEN "record" ELSE "attempt"
           /\ trace' = Append(trace, [kind |-> "attempt", engine |-> i,
                                      result |-> r.result,
                                      elapsed |-> r.elapsed,
                                      reward |-> Reward(r.elapsed, nsolvers)])
    /\ pos' = pos + 1
    /\ UNCHANGED <<config, A_0, B_0, As, Bs, Cs, last_five, sampled, ctr, all,
                   prob, point, ps, choices, upd, round0, pre>>

\* add_strategy after its loop: all.append(...) and return rewards.
Record ==
    /\ pc = "record"
    /\ res # NoResult
    /\ all' = Append(all, Solved_Problem(prob, elapsed, res.result))
    /\ pc' = "update"
    /\ UNCHANGED <<config, A_0, B_0, As, Bs, Cs, last_five, sampled, ctr,
                   solved, locals, trace, round0, pre>>

\* With no solver configured the loop body never ran and res is None:
\* res.result raises AttributeError, which nothing catches.
Crash ==
    /\ pc = "record"
    /\ res = NoResult
    /\ pc' = "crashed"
    /\ UNCHANGED <<config, A_0, B_0, As, Bs, Cs, last_five, sampled, ctr,
                   solved, all, locals, trace, round0, pre>>

(***************************************************************************)
(* main: one turn of the loop over the rewards add_strategy returned.      *)
(***************************************************************************)
UpdateStep ==
    /\ pc = "update"
    /\ upd <= Len(rewards)
    /\ LET m == Update(Model, Choice(upd), point, rewards[upd])
       IN  /\ A_0' = m.A_0
           /\ B_0' = m.B_0
           /\ As' = m.As
           /\ Bs' = m.Bs
           /\ Cs' = m.Cs
    /\ upd' = upd + 1
    /\ pre' = Model
    /\ trace' = Append(trace, [kind |-> "update", engine |-> Choice(upd),
                               result |-> "", elapsed |-> RZero,
                               reward |-> rewards[upd]])
    /\ UNCHANGED <<config, last_five, sampled, ctr, solved, all, pc, prob,
                   point, ps, choices, pos, elapsed, solver, res, rewards,
                   round0>>

\* ctr += 1, and back to the loop head.  The locals of the round are dead
\* from here on (the next round overwrites each before reading it).
EndRound ==
    /\ pc = "update"
    /\ upd > Len(rewards)
    /\ ctr' = ctr + 1
    /\ pc' = "loop"
    /\ prob' = 0
    /\ point' = Zeros(d, 1)
    /\ ps' = <<>>
    /\ choices' = <<>>
    /\ pos' = 1
    /\ elapsed' = RZero
    /\ solver' = NoSolver
    /\ res' = NoResult
    /\ rewards' = <<>>
    /\ upd' = 1
    /\ trace' = <<>>
    /\ round0' = Model
    /\ pre' = Model
    /\ UNCHANGED <<config, A_0, B_0, As, Bs, Cs, last_five, sampled, solved, all>>

\* The sample is exhausted: main pickles and prints its lists.
Finish ==
    /\ pc = "loop"
    /\ pc' = "done"
    /\ UNCHANGED <<config, A_0, B_0, As, Bs, Cs, last_five, sampled, ctr,
                   solved, all, locals, trace, round0, pre>>

Next ==
    \/ \E p \in Problems : NextProblem(p)
    \/ AttemptStep
    \/ Record
    \/ UpdateStep
    \/ EndRound
    \/ Finish

Spec == Init /\ [][Next]_vars

(***************************************************************************)
(* The program under any configuration of SOLVERS, PROBES and ALPHA.       *)
(***************************************************************************)
InitCfg ==
    \E K \in {0, NumSolvers}, n \in {0, Dim},
       al \in {RNorm(-AlphaNum, AlphaDen), RZero, RNorm(AlphaNum, AlphaDen)} :
        Start(K, n, al)

NextCfg == Next \/ Crash

SpecCfg == InitCfg /\ [][NextCfg]_vars

(***************************************************************************)
(* Properties.  The round's history is read from trace: its attempts and   *)
(* its updates, each in the order they happened.                           *)
(***************************************************************************)
IsAttempt(e) == e.kind = "attempt"

IsUpdate(e) == e.kind = "update"

Attempts == SelectSeq(trace, IsAttempt)

Updates == SelectSeq(trace, IsUpdate)

\* A definitive answer: sat or unsat.
Definitive(result) == result \in {"sat", "unsat"}

\* The round's attempts are over and every reward has been applied.
RoundOver == pc = "update" /\ upd > Len(rewards)

\* C1: in every round the engines are attempted in rank order; no engine is
\* attempted after a definitive answer (sat or unsat); an attempt that
\* errors, times out or is indeterminate is followed by the next engine, so
\* a round that ends without a definitive answer has attempted all K engines.
C1_RankOrderStopOnAnswer ==
    LET at == Attempts
    IN  /\ Len(at) <= Len(choices)
        /\ \A n \in 1..Len(at) : at[n].engine = choices[n]
        /\ \A n \in 1..Len(at) : Definitive(at[n].result) => n = Len(at)
        /\ (pc = "attempt" /\ Len(at) > 0) => ~Definitive(at[Len(at)].result)
        /\ (pc \in {"record", "update"} /\ Len(at) > 0
                /\ ~Definitive(at[Len(at)].result))
               => /\ Len(at) = nsolvers
                  /\ {at[n].engine : n \in 1..Len(at)} = 0..(nsolvers - 1)

\* C1's case: a round stopped by a definitive answer after an attempt that
\* gave none, with engines left unattempted.
C1_Witness ==
    LET at == Attempts
    IN  /\ pc = "record"
        /\ Len(at) >= 2
        /\ Len(at) < nsolvers
        /\ Definitive(at[Len(at)].result)
        /\ at[1].result \in {"error", "unknown"}

\* C2, as the claim states it: the update for an attempt is applied before
\* the next engine is attempted, so the attempts made are never more than
\* one ahead of the updates applied.
C2_UpdateBeforeNextAttempt == Len(Attempts) <= Len(Updates) + 1

\* C2, amended: the updates are deferred.  While the round's attempts are
\* being made no update is applied and the model is what the round started
\* with; the updates follow the last attempt, none is followed by an
\* attempt, and when the round is over each attempt has had its update.
C2_UpdatesDeferred ==
    /\ pc \in {"attempt", "record"} => (Updates = <<>> /\ Model = round0)
    /\ \A a, b \in 1..Len(trace) :
           (a < b /\ IsUpdate(trace[a])) => IsUpdate(trace[b])
    /\ RoundOver => Len(Updates) = Len(Attempts)
    /\ pc = "loop" => trace = <<>>

\* C2's case: a round of several attempts has had all its updates, and the
\* model is no longer what the round started with.
C2_Witness ==
    /\ RoundOver
    /\ Len(Attempts) >= 2
    /\ Len(Updates) = Len(Attempts)
    /\ Model # round0

\* C3: update is applied exactly once for each engine attempted, in the
\* order attempted and with that attempt's reward; the matrices of an
\* engine not attempted are what they were when the round started; when
\* the first engine in rank order gives a definitive answer the round has
\* exactly one update.
C3_OneUpdatePerAttempt ==
    LET at == Attempts
        up == Updates
        tried == {at[n].engine : n \in 1..Len(at)}
    IN  /\ Len(up) <= Len(at)
        /\ \A n \in 1..Len(up) :
               /\ up[n].engine = at[n].engine
               /\ up[n].reward = at[n].reward
        /\ \A a, b \in 1..Len(at) : a # b => at[a].engine # at[b].engine
        /\ \A i \in (0..(nsolvers - 1)) \ tried :
               /\ As[i] = round0.As[i]
               /\ Bs[i] = round0.Bs[i]
               /\ Cs[i] = round0.Cs[i]
        /\ RoundOver =>
               /\ Len(up) = Len(at)
               /\ \A n \in 1..Len(at) :
                      /\ As[at[n].engine] =
                             MatAdd(round0.As[at[n].engine], Outer(point))
                      /\ Bs[at[n].engine] =
                             MatAdd(round0.Bs[at[n].engine],
                                    Scale(at[n].reward, point))
               /\ (Len(at) > 0 /\ at[1].engine = choices[1]
                     /\ Definitive(at[1].result)) => Len(up) = 1

\* C3's case: a round is over in which some engines were attempted, in an
\* order that is not the order of their indices, and some were not.
C3_Witness ==
    /\ RoundOver
    /\ Len(Updates) = 2
    /\ nsolvers > 2
    /\ Updates[1].engine > Updates[2].engine
    /\ As[Updates[1].engine] # round0.As[Updates[1].engine]

\* C7: when every engine attempted in a round timed out, the round is in
\* the list of all rounds and not in the solved list, and the time recorded
\* for it is K times the budget of one attempt, TIMEOUT in all.
AllTimedOut ==
    /\ Len(Attempts) > 0
    /\ \A n \in 1..Len(Attempts) : Attempts[n].result = TIMEOUT_RESULT

C7_AllTimeoutsUnsolved ==
    (pc = "update" /\ AllTimedOut) =>
        /\ Len(all) = Cardinality(sampled)
        /\ all[Len(all)].problem = prob
        /\ all[Len(all)].result = TIMEOUT_RESULT
        /\ all[Len(all)].time = RMul(RInt(nsolvers), RNorm(TIMEOUT, nsolvers))
        /\ all[Len(all)].time = RInt(TIMEOUT)
        /\ \A n \in 1..Len(solved) : solved[n].problem # prob

\* C7's case: a round in which all K engines timed out has been recorded.
C7_Witness ==
    /\ pc = "update"
    /\ AllTimedOut
    /\ Len(Attempts) = nsolvers
    /\ Len(all) > 0

\* C10: for every engine i, C_i is A_i minus the identity matrix.
C10_CIsAMinusIdentity ==
    \A i \in 0..(nsolvers - 1) : Cs[i] = MatSub(As[i], Identity(d))

\* C10's case: an engine's C_i has accumulated outer products of two rounds.
C10_Witness ==
    \E i \in 0..(nsolvers - 1) :
        /\ Cs[i] # Zeros(d, d)
        /\ Cs[i] # round0.Cs[i]
        /\ round0.Cs[i] # Zeros(d, d)

\* M is its own transpose.
Symmetric(M) ==
    /\ M.r = M.c
    /\ \A i, j \in 1..M.r : M.v[i][j] = M.v[j][i]

\* The top left k by k block of M.
Leading(M, k) ==
    Mat(k, k, [i \in 1..k, j \in 1..k |-> M.v[i][j]])

\* Sylvester's criterion: a symmetric matrix is positive-definite exactly
\* when each of its leading principal minors is positive.
PositiveDefinite(M) ==
    \A k \in 1..M.r : RSign(Det(Leading(M, k))) > 0

\* C4: from A_0 = I and every As[i] = I, after any updates with the
\* non-negative feature vectors and the rewards of the rounds, A_0 and
\* every As[i] are symmetric and positive-definite, hence invertible.
C4_SymmetricPositiveDefinite ==
    /\ Symmetric(A_0)
    /\ PositiveDefinite(A_0)
    /\ \A i \in 0..(nsolvers - 1) :
           Symmetric(As[i]) /\ PositiveDefinite(As[i])

\* C4's case: after updates of two rounds, A_0 and some As[i] have entries
\* off the diagonal.
C4_Witness ==
    /\ ctr >= 1
    /\ Len(Updates) >= 1
    /\ A_0.v[1][2] # RZero
    /\ \E i \in 0..(nsolvers - 1) :
           As[i].v[1][2] # RZero /\ As[i].v[1][1] # As[i].v[2][2]

\* The claim's seven steps, each inverse taken where the claim reads it.
C5_SevenSteps(m, i, x, reward) ==
    LET A0a == MatAdd(m.A_0, MatMul(MatMul(Transpose(m.Cs[i]),
                                           Inverse(m.As[i])), m.Cs[i]))
        B0a == MatAdd(m.B_0, MatMul(MatMul(Transpose(m.Cs[i]),
                                           Inverse(m.As[i])), m.Bs[i]))
        Ai  == MatAdd(m.As[i], MatMul(x, Transpose(x)))
        Bi  == MatAdd(m.Bs[i], Scale(reward, x))
        Ci  == MatAdd(m.Cs[i], MatMul(x, Transpose(x)))
        A0b == MatAdd(A0a, MatSub(MatMul(x, Transpose(x)),
                                  MatMul(MatMul(Transpose(Ci), Inverse(Ai)), Ci)))
        B0b == MatAdd(B0a, MatSub(Scale(reward, x),
                                  MatMul(MatMul(Transpose(Ci), Inverse(Ai)), Bi)))
    IN  [A_0 |-> A0b, B_0 |-> B0b,
         As  |-> [m.As EXCEPT ![i] = Ai],
         Bs  |-> [m.Bs EXCEPT ![i] = Bi],
         Cs  |-> [m.Cs EXCEPT ![i] = Ci]]

\* The state is the one an update has just produced.
JustUpdated == Len(trace) > 0 /\ IsUpdate(trace[Len(trace)])

\* The feature vector [1, 0, ...] as a column.
UnitVector(n) ==
    Mat(n, 1, [i \in 1..n, j \in 1..1 |-> IF i = 1 THEN ROne ELSE RZero])

\* 0.1296 = (1 - 2 * 2 / 10) ** 4
ScenarioReward == RNorm(1296, 10000)

\* C5: an update changes the state to exactly the result of the seven
\* steps in the stated order.  From the initial model, with x = [1, 0, ...]
\* and reward 0.1296, the engine's A_i becomes the identity with 2 in its
\* first place and A_0 the identity with 1.5 there; with K = 2, d = 2 and
\* engine 0 these are [[2, 0], [0, 1]] and [[1.5, 0], [0, 1]].
C5_SevenRankOneSteps ==
    JustUpdated =>
        LET e == trace[Len(trace)]
        IN  /\ Model = C5_SevenSteps(pre, e.engine, point, e.reward)
            /\ (pre = InitialModel(nsolvers, d) /\ point = UnitVector(d)
                    /\ e.reward = ScenarioReward) =>
                   LET m == Update(InitialModel(2, 2), 0, UnitVector(2),
                                   ScenarioReward)
                   IN  /\ As[e.engine] =
                              MatAdd(Identity(d), Outer(UnitVector(d)))
                       /\ A_0 = MatAdd(Identity(d),
                                       Scale(<<1, 2>>, Outer(UnitVector(d))))
                       /\ m.As[0].v = <<<<RInt(2), RZero>>, <<RZero, ROne>>>>
                       /\ m.A_0.v = <<<<(<<3, 2>>), RZero>>, <<RZero, ROne>>>>

\* C5's case: an update of an engine that had been updated with a reward
\* before, so that neither first correction is zero, with a feature vector
\* of two entries.
C5_Witness ==
    /\ JustUpdated
    /\ pre.Cs[trace[Len(trace)].engine] # Zeros(d, d)
    /\ pre.Bs[trace[Len(trace)].engine] # Zeros(d, 1)
    /\ point.v[1][1] # RZero
    /\ point.v[2][1] # RZero
    /\ B_0 # pre.B_0

\* C6: the ranking holds each of the K engine indices exactly once, in
\* ascending order of score, so that the engine attempted first is one of
\* lowest score.  (Each ss is non-negative: its square root is a number.)
C6_RankIsAscendingPermutation ==
    pc \in {"attempt", "record", "update"} =>
        /\ Len(choices) = nsolvers
        /\ \A i \in 0..(nsolvers - 1) :
               Cardinality({n \in 1..Len(choices) : choices[n] = i}) = 1
        /\ \A i \in 0..(nsolvers - 1) : RSign(ps[i].s) >= 0
        /\ \A n \in 1..(nsolvers - 1) :
               ScoreSign(ps[choices[n]], ps[choices[n + 1]], alpha) <= 0
        /\ Len(Attempts) > 0 =>
               \A i \in 0..(nsolvers - 1) :
                   ScoreSign(ps[Attempts[1].engine], ps[i], alpha) <= 0

\* C6's case: a ranking of engines whose scores are not all equal, two of
\* its neighbours being in strictly ascending order and two others tied.
C6_Witness ==
    /\ pc = "attempt"
    /\ pos = 1
    /\ Cardinality({n \in 1..(nsolvers - 1) :
            ScoreSign(ps[choices[n]], ps[choices[n + 1]], alpha) < 0}) >= 2
    /\ \E n \in 1..(nsolvers - 1) :
            /\ ps[choices[n]] # ps[choices[n + 1]]
            /\ ps[choices[n]].a # ps[choices[n + 1]].a
            /\ ps[choices[n]].s # ps[choices[n + 1]].s

\* C8, as the claim states it: after an update of engine i with x and r the
\* score of i at x differs from what it was, unless r is the prediction the
\* model made before the update; and the update has changed the model.
C8_ScoreChangesUnlessPredicted ==
    JustUpdated =>
        LET e      == trace[Len(trace)]
            before == Score(pre, e.engine, point, Inverse(pre.A_0))
            after  == Score(Model, e.engine, point, Inverse(A_0))
        IN  /\ e.reward # before.a => ScoreSign(after, before, alpha) # 0
            /\ Model # pre

\* C8, amended: an update with a feature vector that is not zero is not a
\* no-op: it changes A_i, C_i and A_0, and the ss of engine i at x, the
\* term of the score under the square root, gets strictly smaller.  An
\* update with the zero vector leaves the model as it was, whatever r is.
C8_UpdateChangesModelUnlessZero ==
    JustUpdated =>
        LET e == trace[Len(trace)]
        IN  IF point = Zeros(d, 1)
            THEN Model = pre
            ELSE /\ As[e.engine] # pre.As[e.engine]
                 /\ Cs[e.engine] # pre.Cs[e.engine]
                 /\ A_0 # pre.A_0
                 /\ RCmp(Variance(Model, e.engine, point, Inverse(A_0)),
                         Variance(pre, e.engine, point, Inverse(pre.A_0))) < 0

\* C8's case: an engine that had been updated before is updated again with
\* a feature vector that is not zero and a reward that is not what the
\* model predicted.
C8_Witness ==
    /\ JustUpdated
    /\ point # Zeros(d, 1)
    /\ pre.As[trace[Len(trace)].engine] # Identity(d)
    /\ trace[Len(trace)].reward #
           Score(pre, trace[Len(trace)].engine, point, Inverse(pre.A_0)).a

\* An empty portfolio, a zero-length feature vector or an alpha that is not
\* positive.
InvalidConfiguration == nsolvers = 0 \/ d = 0 \/ RSign(alpha) <= 0

\* C9: under an invalid configuration no round runs: no engine is attempted,
\* no model state is updated and nothing is recorded.
C9_InvalidConfigurationRejected ==
    InvalidConfiguration =>
        /\ trace = <<>>
        /\ all = <<>>
        /\ Model = InitialModel(nsolvers, d)
        /\ pc \notin {"attempt", "update"}
====
